---- MODULE Spec2Model ----
(***************************************************************************)
(* Model of google-prospeccao.py: the main flow (geocode, then the two     *)
(* paginated search strategies with inline place-detail enrichment, then   *)
(* concatenation, deduplication and export).  The mapping provider is the  *)
(* environment: every HTTP request is answered nondeterministically with a *)
(* transport failure or with one of a small set of JSON payloads.          *)
(***************************************************************************)
EXTENDS Integers, Sequences, FiniteSets, TLC

VARIABLES
    pc,                       \* position of the (single) thread of control
    localizacao,              \* __main__: result of obter_coordenadas
    params,                   \* request parameters of the running search function
    next_page_token,          \* local of the running search function
    dados,                    \* last decoded search response of the running function
    idx,                      \* position of the for loop in dados['results'] (0: not in it)
    dados_detalhes,           \* last answer to obter_detalhes_por_place_id's request
    detalhes,                 \* last value returned by obter_detalhes_por_place_id
    razao_social_detalhada,   \* local of the running search function
    resultados,               \* rows accumulated by the running search function
    resultados_textsearch,    \* table returned by buscar_textsearch
    resultados_nearbysearch,  \* table returned by buscar_nearbysearch
    resultados_combinados,    \* table returned by buscar_empresas_por_razao_social
    planilha,                 \* rows written by salvar_resultados (None: nothing written)
    http                      \* every HTTP exchange so far: request and the provider's answer

vars == <<pc, localizacao, params, next_page_token, dados, idx, dados_detalhes, detalhes,
          razao_social_detalhada, resultados, resultados_textsearch, resultados_nearbysearch, resultados_combinados,
          planilha, http>>

-----------------------------------------------------------------------------
(* Bounds of the environment.                                              *)

\* Most search pages the provider serves over one whole invocation.
MaxPages == 3
\* Most hits the provider puts on one page.
MaxHits == 2
\* Most hits the provider serves over one whole invocation.
MaxRows == 3

-----------------------------------------------------------------------------
(* Python values.                                                          *)

None == "None"
NA == "N/A"
EmptyDict == [k \in {} |-> None]

\* dict.get(k, default)
Get(d, k, default) == IF k \in DOMAIN d THEN d[k] ELSE default

\* d[k] = v on a dict
SetKey(d, k, v) == (k :> v) @@ d

\* truth value of a str-or-None (None and '' are false)
Truthy(x) == x # None /\ x # ""

\* truth value of a dict (the empty dict is false)
TruthyDict(d) == DOMAIN d # {}

\* the exception raised by requests.get / response.json, as an answer
Excecao == [exception |-> "RequestException"]
IsExcecao(r) == "exception" \in DOMAIN r

-----------------------------------------------------------------------------
(* Program constants.                                                      *)

BASE_URL == "place/textsearch/json"
nearby_url == "place/nearbysearch/json"
detalhes_url == "place/details/json"
geocode_url == "geocode/json"
API_KEY == "key"
razao_social == "RAZAO SOCIAL"
raio == 23000
\* the two strings typed at the prompts of __main__
cidade == "Springfield"
estado == "IL"

-----------------------------------------------------------------------------
(* What the provider may answer.                                           *)

\* The continuation token of the n-th page of a search: opaque, and
\* different for every page of every endpoint.
Token(url, n) == url \o "#" \o ToString(n + 1)

\* Search hits: one complete, one with neither name nor place_id nor vicinity.
Hits == { [name |-> "Acme Ltda", formatted_address |-> "Rua 1", vicinity |-> "Rua 1",
           place_id |-> "p1"],
          [formatted_address |-> "Rua 3"] }

RECURSIVE SeqsUpTo(_, _)
SeqsUpTo(S, n) ==
    IF n <= 0 THEN {<<>>}
    ELSE LET shorter == SeqsUpTo(S, n - 1)
         IN shorter \cup {Append(s, x) : s \in {t \in shorter : Len(t) = n - 1}, x \in S}

\* JSON envelopes of a search request: OK pages with or without a
\* continuation token, and a non-OK page (which may still list results).
SearchPayloads(maxHits, mayContinue, token) ==
    LET lists == SeqsUpTo(Hits, maxHits)
    IN  {[status |-> "OK", results |-> l] : l \in lists}
        \cup {[status |-> "OK", results |-> l, next_page_token |-> t] :
                l \in lists, t \in IF mayContinue THEN {token} ELSE {}}
        \cup {[status |-> "INVALID_REQUEST", results |-> l] :
                l \in {<<>>} \cup {<<h>> : h \in IF maxHits > 0 THEN Hits ELSE {}}}

\* JSON envelopes of a place-details request.
DetailPayloads ==
    { [status |-> "OK", result |-> [name |-> "Acme Ltda S.A.",
                                    formatted_phone_number |-> "555-0100",
                                    website |-> "acme.example"]],
      [status |-> "OK", result |-> [name |-> "Acme Ltda S.A."]],
      [status |-> "NOT_FOUND", error_message |-> "unknown place"] }

\* JSON envelopes of a geocode request.
GeocodePayloads ==
    { [status |-> "OK", results |-> <<[lat |-> "39.78", lng |-> "-89.65"]>>],
      [status |-> "OK", results |-> <<>>],
      [status |-> "ZERO_RESULTS", results |-> <<>>] }

-----------------------------------------------------------------------------
(* The log of HTTP exchanges.                                              *)

Count(s, P(_)) == Cardinality({i \in 1..Len(s) : P(s[i])})
IsSearch(e) == e.url \in {BASE_URL, nearby_url}
IsDetail(e) == e.url = detalhes_url
HitsServed == Count(http, IsDetail) + (IF idx = 0 THEN 0 ELSE Len(dados.results) - idx + 1)
SearchesOf(url) == Cardinality({i \in 1..Len(http) : http[i].url = url})

-----------------------------------------------------------------------------
\* Variant: a status other than OK returns the decoded envelope.
obter_detalhes_por_place_id_Envelope(resposta) ==
    IF IsExcecao(resposta) THEN EmptyDict
    ELSE IF resposta.status = "OK" THEN resposta.result
    ELSE resposta

(* obter_detalhes_por_place_id: the value returned for an answer.          *)

obter_detalhes_por_place_id(resposta) ==
    IF IsExcecao(resposta) THEN EmptyDict
    ELSE IF resposta.status = "OK" THEN resposta.result
    ELSE EmptyDict

(* obter_coordenadas: the value returned for an answer.                    *)
obter_coordenadas(resposta) ==
    IF IsExcecao(resposta) THEN None
    ELSE IF resposta.status = "OK"
         THEN IF Len(resposta.results) = 0
              THEN None   \* IndexError, caught by the except clause
              ELSE resposta.results[1].lat \o "," \o resposta.results[1].lng
         ELSE None

-----------------------------------------------------------------------------
(* The search functions.                                                   *)

\* the params dict buscar_textsearch builds before its loop
TextParams(loc) ==
    LET p0 == [query |-> razao_social, key |-> API_KEY]
        p1 == IF Truthy(loc) THEN SetKey(p0, "location", loc) ELSE p0
        p2 == IF raio # 0 THEN SetKey(p1, "radius", raio) ELSE p1
        p3 == IF Truthy(cidade) THEN SetKey(p2, "query", p2.query \o " in " \o cidade) ELSE p2
    IN  IF Truthy(estado) THEN SetKey(p3, "query", p3.query \o ", " \o estado) ELSE p3

\* the params dict buscar_nearbysearch builds before its loop
NearbyParams(loc) ==
    [keyword |-> razao_social, location |-> loc, radius |-> raio, key |-> API_KEY]

\* Variant: the pagetoken parameter is set once and never replaced.
ComToken_Primeiro(p, token) ==
    IF Truthy(token) /\ "pagetoken" \notin DOMAIN p THEN SetKey(p, "pagetoken", token) ELSE p

\* `if next_page_token: params['pagetoken'] = next_page_token`
ComToken(p, token) == IF Truthy(token) THEN SetKey(p, "pagetoken", token) ELSE p

\* Variant: the results are processed whatever the status.
PaginaOK_Sempre(d) == TRUE

\* `if dados['status'] == 'OK'`
PaginaOK(d) == d.status = "OK"

\* Variant: the loop never breaks on a missing token.
Continua_Sempre(token) == TRUE

\* `if not next_page_token: break`: TRUE when the loop goes on
Continua(token) == Truthy(token)

\* Variant: the except clause sits inside the while loop, which goes on.
AposExcecao_Retenta(pWhile, pReturn) == pWhile

\* Variant: no except clause, the exception leaves the function.
AposExcecao_Propaga(pWhile, pReturn) == "crashed"

\* where the `except Exception` clause of a search function leaves control
AposExcecao(pWhile, pReturn) == pReturn

\* Variant: the request is made outside the try block.
DetalhesLevanta_Transporte(resposta) == IsExcecao(resposta)

\* whether obter_detalhes_por_place_id raises for an answer: its try/except
\* catches every Exception
DetalhesLevanta(resposta) == FALSE

\* the three detail fields the caller reads from the returned dict
CamposDetalhes(det) ==
    IF TruthyDict(det)
    THEN [telefone |-> Get(det, "formatted_phone_number", NA),
          website |-> Get(det, "website", NA),
          razao_social_detalhada |-> Get(det, "name", NA)]
    ELSE [telefone |-> NA, website |-> NA, razao_social_detalhada |-> NA]

\* Variant: the detail fields are read without a default.
Linha_SemSentinela(resultado, addrKey, det) ==
    [Nome |-> Get(resultado, "name", NA),
     Endereco |-> Get(resultado, addrKey, NA),
     Telefone |-> Get(det, "formatted_phone_number", None),
     Website |-> Get(det, "website", None)]

\* the row appended for one hit
Linha(resultado, addrKey, det) ==
    LET nome == Get(resultado, "name", NA)
        endereco == Get(resultado, addrKey, NA)
        campos == CamposDetalhes(det)
    IN  [Nome |-> nome, Endereco |-> endereco, Telefone |-> campos.telefone,
         Website |-> campos.website]

\* end of a page's for loop: read the token, break or go round the while loop
FimDaPagina(d, pWhile, pReturn) ==
    /\ next_page_token' = Get(d, "next_page_token", None)
    /\ idx' = 0
    /\ pc' = IF Continua(next_page_token') THEN pWhile ELSE pReturn

\* one turn of `while True` up to the for loop: the request and its answer
BuscaPagina(url, pWhile, pFor, pReturn) ==
    /\ pc = pWhile
    /\ LET p == ComToken(params, next_page_token)
           pedido == [url |-> url, arg |-> Get(p, "pagetoken", None)]
       IN  /\ params' = p
           /\ \/ /\ http' = Append(http, SetKey(pedido, "resp", Excecao))
                 /\ pc' = AposExcecao(pWhile, pReturn)
                 /\ UNCHANGED <<dados, idx, next_page_token>>
              \/ \E d \in SearchPayloads(IF MaxRows - HitsServed < MaxHits
                                            THEN MaxRows - HitsServed ELSE MaxHits,
                                         Count(http, IsSearch) + 1 < MaxPages,
                                         Token(url, SearchesOf(url) + 1)) :
                    /\ http' = Append(http, SetKey(pedido, "resp", d))
                    /\ dados' = d
                    /\ IF PaginaOK(d)
                       THEN IF Len(d.results) > 0
                            THEN /\ idx' = 1
                                 /\ pc' = pFor
                                 /\ UNCHANGED next_page_token
                            ELSE FimDaPagina(d, pWhile, pReturn)
                       ELSE /\ pc' = pReturn
                            /\ UNCHANGED <<idx, next_page_token>>
    /\ UNCHANGED <<localizacao, dados_detalhes, detalhes, razao_social_detalhada,
                   resultados, resultados_textsearch,
                   resultados_nearbysearch, resultados_combinados, planilha>>

\* one turn of `for resultado in dados['results']`
ProcessaResultado(addrKey, pWhile, pFor, pReturn) ==
    /\ pc = pFor
    /\ LET resultado == dados.results[idx]
           place_id == Get(resultado, "place_id", NA)
       IN  \E resposta \in DetailPayloads \cup {Excecao} :
              /\ http' = Append(http, [url |-> detalhes_url, arg |-> place_id])
              /\ dados_detalhes' = resposta
              /\ IF DetalhesLevanta(resposta)
                 THEN \* the exception reaches the search function's except clause
                      /\ pc' = AposExcecao(pWhile, pReturn)
                      /\ UNCHANGED <<detalhes, razao_social_detalhada, resultados,
                                     idx, next_page_token>>
                 ELSE /\ detalhes' = obter_detalhes_por_place_id(resposta)
                      /\ razao_social_detalhada' =
                            CamposDetalhes(detalhes').razao_social_detalhada
                      /\ resultados' =
                            Append(resultados, Linha(resultado, addrKey, detalhes'))
                      /\ IF idx < Len(dados.results)
                         THEN /\ idx' = idx + 1
                              /\ UNCHANGED <<pc, next_page_token>>
                         ELSE FimDaPagina(dados, pWhile, pReturn)
    /\ UNCHANGED <<localizacao, params, dados, resultados_textsearch,
                   resultados_nearbysearch, resultados_combinados, planilha>>

-----------------------------------------------------------------------------
(* Actions.                                                                *)

Init ==
    /\ pc = "main"
    /\ localizacao = None
    /\ params = EmptyDict
    /\ next_page_token = None
    /\ dados = EmptyDict
    /\ idx = 0
    /\ dados_detalhes = EmptyDict
    /\ detalhes = EmptyDict
    /\ razao_social_detalhada = None
    /\ resultados = <<>>
    /\ resultados_textsearch = <<>>
    /\ resultados_nearbysearch = <<>>
    /\ resultados_combinados = <<>>
    /\ planilha = None
    /\ http = <<>>

\* Variant: the search runs whatever obter_coordenadas returned.
Prossegue_Sempre(loc) == TRUE

\* `if localizacao:` of __main__
Prossegue(loc) == Truthy(loc)

\* __main__ up to the call of buscar_empresas_por_razao_social
Main ==
    /\ pc = "main"
    /\ \E resposta \in GeocodePayloads \cup {Excecao} :
          /\ http' = Append(http, [url |-> geocode_url, arg |-> cidade \o ", " \o estado,
                                   resp |-> resposta])
          /\ localizacao' = obter_coordenadas(resposta)
    /\ IF Prossegue(localizacao')
       THEN /\ pc' = "text_while"
            /\ params' = TextParams(localizacao')
       ELSE /\ pc' = "done"
            /\ UNCHANGED params
    /\ UNCHANGED <<next_page_token, dados, idx, dados_detalhes, detalhes,
                   razao_social_detalhada, resultados, resultados_textsearch, resultados_nearbysearch,
                   resultados_combinados, planilha>>

TextBuscaPagina == BuscaPagina(BASE_URL, "text_while", "text_for", "text_return")

TextProcessaResultado ==
    ProcessaResultado("formatted_address", "text_while", "text_for", "text_return")

\* `return pd.DataFrame(resultados)` of buscar_textsearch, and the entry
\* into buscar_nearbysearch
TextReturn ==
    /\ pc = "text_return"
    /\ resultados_textsearch' = resultados
    /\ params' = NearbyParams(localizacao)
    /\ resultados' = <<>>
    /\ next_page_token' = None
    /\ dados' = EmptyDict
    /\ idx' = 0
    /\ dados_detalhes' = EmptyDict
    /\ detalhes' = EmptyDict
    /\ razao_social_detalhada' = None
    /\ pc' = "nearby_while"
    /\ UNCHANGED <<localizacao, resultados_nearbysearch, resultados_combinados,
                   planilha, http>>

NearbyBuscaPagina == BuscaPagina(nearby_url, "nearby_while", "nearby_for", "nearby_return")

NearbyProcessaResultado ==
    ProcessaResultado("vicinity", "nearby_while", "nearby_for", "nearby_return")

\* Variant: drop_duplicates(keep='last').
RECURSIVE drop_duplicates_Last(_)
drop_duplicates_Last(df) ==
    IF df = <<>> THEN <<>>
    ELSE IF \E j \in 2..Len(df) : df[j] = df[1]
         THEN drop_duplicates_Last(Tail(df))
         ELSE <<df[1]>> \o drop_duplicates_Last(Tail(df))

\* DataFrame.drop_duplicates (keep='first') after a reset of the index
RECURSIVE drop_duplicates(_)
drop_duplicates(df) ==
    IF df = <<>> THEN <<>>
    ELSE LET n == Len(df)
             antes == drop_duplicates(SubSeq(df, 1, n - 1))
         IN  IF \E j \in 1..(n - 1) : df[j] = df[n] THEN antes ELSE Append(antes, df[n])

\* pd.concat of the two tables
concat(a, b) == a \o b

\* `return pd.DataFrame(resultados)` of buscar_nearbysearch, then the
\* concat / drop_duplicates / return of buscar_empresas_por_razao_social
NearbyReturn ==
    /\ pc = "nearby_return"
    /\ resultados_nearbysearch' = resultados
    /\ resultados_combinados' =
          drop_duplicates(concat(resultados_textsearch, resultados_nearbysearch'))
    /\ pc' = "main_resultados"
    /\ UNCHANGED <<localizacao, params, next_page_token, dados, idx, dados_detalhes,
                   detalhes, razao_social_detalhada,
                   resultados, resultados_textsearch, planilha, http>>

\* the rows salvar_resultados writes: renamed and reordered columns
salvar_resultados(df) ==
    [i \in 1..Len(df) |->
        <<df[i].Endereco, df[i].Nome, "", df[i].Telefone, df[i].Website>>]

\* `if not resultados.empty:` of __main__
MainResultados ==
    /\ pc = "main_resultados"
    /\ planilha' = IF resultados_combinados # <<>>
                   THEN salvar_resultados(resultados_combinados)
                   ELSE None
    /\ pc' = "done"
    /\ UNCHANGED <<localizacao, params, next_page_token, dados, idx, dados_detalhes,
                   detalhes, razao_social_detalhada,
                   resultados, resultados_textsearch, resultados_nearbysearch,
                   resultados_combinados, http>>

Next ==
    \/ Main
    \/ TextBuscaPagina
    \/ TextProcessaResultado
    \/ TextReturn
    \/ NearbyBuscaPagina
    \/ NearbyProcessaResultado
    \/ NearbyReturn
    \/ MainResultados

Spec == Init /\ [][Next]_vars

-----------------------------------------------------------------------------
(* Reading the run of one strategy off the state.                          *)

Urls == {BASE_URL, nearby_url}
AddrKey(url) == IF url = BASE_URL THEN "formatted_address" ELSE "vicinity"
WhilePc(url) == IF url = BASE_URL THEN "text_while" ELSE "nearby_while"
ForPc(url) == IF url = BASE_URL THEN "text_for" ELSE "nearby_for"
ReturnPc(url) == IF url = BASE_URL THEN "text_return" ELSE "nearby_return"
RunPcs(url) == {WhilePc(url), ForPc(url), ReturnPc(url)}

\* the rows of the run: the working list while it runs, the returned table after
RunRows(url) ==
    IF pc \in RunPcs(url) THEN resultados
    ELSE IF url = BASE_URL THEN resultados_textsearch ELSE resultados_nearbysearch

\* the search exchanges of the run, in order
Pages(url) == SelectSeq(http, LAMBDA e : e.url = url)

IsOKPage(e) == ~IsExcecao(e.resp) /\ e.resp.status = "OK"
IsNonOKPage(e) == ~IsExcecao(e.resp) /\ e.resp.status # "OK"
TokenOf(e) == IF IsOKPage(e) THEN Get(e.resp, "next_page_token", None) ELSE None

\* the hits of the OK pages among the first n exchanges of pg, in order
RECURSIVE HitsOf(_, _)
HitsOf(pg, n) ==
    IF n = 0 THEN <<>>
    ELSE HitsOf(pg, n - 1) \o (IF IsOKPage(pg[n]) THEN pg[n].resp.results ELSE <<>>)

\* hits of the current page the for loop has not reached yet
Pending(url) == IF pc = ForPc(url) THEN Len(dados.results) - idx + 1 ELSE 0

\* position in http of the first request of the nearby run
FirstNearby ==
    LET at == {i \in 1..Len(http) : http[i].url = nearby_url}
    IN  IF at = {} THEN Len(http) + 1 ELSE CHOOSE i \in at : \A j \in at : i <= j

\* positions in http of the detail requests of the run
DetailIdx(url) ==
    LET first == FirstNearby
    IN  {i \in 1..Len(http) :
            /\ http[i].url = detalhes_url
            /\ IF url = BASE_URL THEN i < first ELSE i > first}

\* rows agree, one for one and in order, with the hits they were made from
RowsMatch(rows, hits, url) ==
    /\ Len(rows) = Len(hits)
    /\ \A k \in 1..Len(rows) :
          /\ rows[k].Nome = Get(hits[k], "name", NA)
          /\ rows[k].Endereco = Get(hits[k], AddrKey(url), NA)

DetailFailed(r) == IsExcecao(r) \/ (r # EmptyDict /\ r.status # "OK")

Aggregated == pc \in {"main_resultados", "done"} /\ Prossegue(localizacao)

-----------------------------------------------------------------------------
(* Properties.                                                              *)

\* C1: a run answered with N OK pages, the first N-1 carrying a token and the
\* N-th none, has issued exactly N search requests, is over once the N-th
\* page's hits are processed, and holds the rows of all N pages.
C1_PaginationTerminates ==
    \A url \in Urls :
       LET pg == Pages(url)
       IN  \A n \in 1..Len(pg) :
              ( /\ \A i \in 1..n : IsOKPage(pg[i])
                /\ \A i \in 1..(n - 1) : Truthy(TokenOf(pg[i]))
                /\ ~Truthy(TokenOf(pg[n])) )
              => /\ Len(pg) = n
                 /\ pc # WhilePc(url)
                 /\ pc # "crashed"
                 /\ (pc # ForPc(url) => RowsMatch(RunRows(url), HitsOf(pg, n), url))

C1_Witness ==
    /\ pc = "nearby_while"
    /\ Len(Pages(BASE_URL)) = 3
    /\ \A i \in 1..3 : IsOKPage(Pages(BASE_URL)[i])
    /\ Len(resultados_textsearch) = 3

\* C2: a transport failure on a search request after k OK pages ends the run
\* without raising, no further search or detail request follows in that run,
\* and the run's rows are exactly those of the k pages.
C2_TransportFailureContained ==
    /\ pc # "crashed"
    /\ \A url \in Urls :
          LET pg == Pages(url)
          IN  \A n \in 1..Len(pg) :
                 IsExcecao(pg[n].resp)
                 => /\ Len(pg) = n
                    /\ pc \notin {WhilePc(url), ForPc(url)}
                    /\ \A i \in 1..(n - 1) : IsOKPage(pg[i])
                    /\ RowsMatch(RunRows(url), HitsOf(pg, n - 1), url)
                    /\ Cardinality(DetailIdx(url)) = Len(HitsOf(pg, n - 1))

C2_Witness ==
    /\ pc = "done"
    /\ Len(Pages(BASE_URL)) = 2
    /\ IsOKPage(Pages(BASE_URL)[1])
    /\ IsExcecao(Pages(BASE_URL)[2].resp)
    /\ Len(resultados_textsearch) = 2

\* C3: the aggregated table is the text rows followed by the nearby rows with
\* every later equal row removed: same set of rows, no row twice, survivors in
\* the order of their first occurrence.
FirstIdx(c, x) == CHOOSE i \in 1..Len(c) : c[i] = x /\ \A j \in 1..(i - 1) : c[j] # x

C3_DedupFirstSeen ==
    Aggregated =>
       LET c == resultados_textsearch \o resultados_nearbysearch
           r == resultados_combinados
       IN  /\ {r[i] : i \in 1..Len(r)} = {c[i] : i \in 1..Len(c)}
           /\ \A a, b \in 1..Len(r) : a # b => r[a] # r[b]
           /\ \A a, b \in 1..Len(r) : a < b => FirstIdx(c, r[a]) < FirstIdx(c, r[b])

C3_Witness ==
    /\ Aggregated
    /\ Len(resultados_textsearch) = 2
    /\ Len(resultados_nearbysearch) = 1
    /\ resultados_textsearch[1] # resultados_textsearch[2]
    /\ resultados_nearbysearch[1] = resultados_textsearch[1]
    /\ Len(resultados_combinados) = 2

\* C4: every accumulated row has exactly the four fields, each a value of the
\* provider payload or the sentinel.
PayloadValues ==
    UNION {{h[k] : k \in DOMAIN h} : h \in Hits}
    \cup UNION {{d.result[k] : k \in DOMAIN d.result} :
                  d \in {x \in DetailPayloads : "result" \in DOMAIN x}}

RowComplete(row) ==
    /\ DOMAIN row = {"Nome", "Endereco", "Telefone", "Website"}
    /\ \A k \in DOMAIN row : row[k] \in PayloadValues \cup {NA}

C4_RowsComplete ==
    \A t \in {resultados, resultados_textsearch, resultados_nearbysearch,
              resultados_combinados} :
       \A i \in 1..Len(t) : RowComplete(t[i])

C4_Witness ==
    /\ pc = "text_return"
    /\ Len(resultados) = 3
    /\ resultados[1].Nome = NA /\ resultados[1].Telefone = NA
    /\ resultados[2].Nome # NA /\ resultados[2].Website # NA
    /\ IsExcecao(dados_detalhes)
    /\ resultados[3].Website = NA

\* C5: when obter_coordenadas returns an absent value (answer not OK, no
\* candidate, or transport failure) the run ends with the geocode request as
\* its only HTTP request and nothing exported.
GeocodeFailed ==
    /\ Len(http) >= 1
    /\ \/ IsExcecao(http[1].resp)
       \/ http[1].resp.status # "OK"
       \/ http[1].resp.results = <<>>

C5_GeocodeFailureAborts ==
    /\ (GeocodeFailed => ~Truthy(localizacao))
    /\ (pc # "main" /\ ~Truthy(localizacao))
       => /\ pc = "done"
          /\ Len(http) = 1
          /\ http[1].url = geocode_url
          /\ planilha = None
          /\ resultados_combinados = <<>>

C5_Witness ==
    /\ pc = "done"
    /\ ~Truthy(localizacao)
    /\ ~IsExcecao(http[1].resp)
    /\ http[1].resp.status = "ZERO_RESULTS"

\* C6: a search page with a status other than OK ends its run without raising
\* and without a row for that page, the rows of earlier pages are kept, and
\* after a failing text search the nearby search runs and a table is returned.
C6_NonOKEndsRunOnly ==
    /\ pc # "crashed"
    /\ \A url \in Urls :
          LET pg == Pages(url)
          IN  \A n \in 1..Len(pg) :
                 IsNonOKPage(pg[n])
                 => /\ Len(pg) = n
                    /\ pc \notin {WhilePc(url), ForPc(url)}
                    /\ RowsMatch(RunRows(url), HitsOf(pg, n - 1), url)
                    /\ Cardinality(DetailIdx(url)) = Len(HitsOf(pg, n - 1))
                    /\ (url = BASE_URL /\ pc \notin {"text_return", "nearby_while"}
                          => Len(Pages(nearby_url)) >= 1)
                    /\ (pc \in {"main_resultados", "done"}
                          => \A k \in 1..Len(RunRows(url)) :
                                \E j \in 1..Len(resultados_combinados) :
                                   resultados_combinados[j] = RunRows(url)[k])

C6_Witness ==
    /\ pc = "done"
    /\ Len(Pages(BASE_URL)) = 2
    /\ IsNonOKPage(Pages(BASE_URL)[2])
    /\ Len(Pages(BASE_URL)[2].resp.results) = 1
    /\ Len(resultados_textsearch) = 1
    /\ Len(resultados_nearbysearch) = 1
    /\ Len(resultados_combinados) = 2

\* C7: a detail lookup answered with a status other than OK, or failing in
\* transport, returns the empty dict, and the caller sets telefone, website
\* and razao_social_detalhada to the sentinel for that hit.
C7_DetailFailureDegrades ==
    /\ pc # "crashed"
    /\ DetailFailed(dados_detalhes)
       => /\ detalhes = EmptyDict
          /\ razao_social_detalhada = NA
          /\ Len(resultados) = Cardinality(DetailIdx(IF pc \in RunPcs(BASE_URL)
                                                     THEN BASE_URL ELSE nearby_url))
          /\ resultados[Len(resultados)].Telefone = NA
          /\ resultados[Len(resultados)].Website = NA

C7_Witness ==
    /\ pc = "nearby_for"
    /\ ~IsExcecao(dados_detalhes)
    /\ dados_detalhes # EmptyDict
    /\ dados_detalhes.status = "NOT_FOUND"
    /\ Len(resultados) = 1

\* C8: the first search request of a run carries no pagetoken; every later one
\* carries the token of the page answered just before it in the same run.
C8_TokenChaining ==
    \A url \in Urls :
       LET pg == Pages(url)
       IN  \A n \in 1..Len(pg) :
              IF n = 1 THEN pg[n].arg = None
              ELSE /\ Truthy(TokenOf(pg[n - 1]))
                   /\ pg[n].arg = TokenOf(pg[n - 1])

C8_Witness ==
    /\ pc = "done"
    /\ Len(Pages(BASE_URL)) = 3
    /\ Pages(BASE_URL)[3].arg = Token(BASE_URL, 2)
    /\ Len(Pages(nearby_url)) = 1

\* C9: whatever the two runs produce, control reaches the aggregation without
\* an exception, and two empty runs aggregate to the empty table.
C9_EmptyRunsAggregate ==
    /\ pc # "crashed"
    /\ (Aggregated /\ resultados_textsearch = <<>> /\ resultados_nearbysearch = <<>>)
       => /\ resultados_combinados = <<>>
          /\ planilha = None
    /\ (Aggregated /\ resultados_combinados = <<>>)
       => resultados_textsearch = <<>> /\ resultados_nearbysearch = <<>>

C9_Witness ==
    /\ pc = "done"
    /\ Prossegue(localizacao)
    /\ IsExcecao(Pages(BASE_URL)[1].resp)
    /\ IsNonOKPage(Pages(nearby_url)[1])
    /\ resultados_combinados = <<>>

\* C10: in a run, the rows accumulated, the hits processed and the detail
\* requests issued are equal in number at every point, and a failed detail
\* lookup leaves the loop where a successful one would.
C10_OneRowPerHit ==
    /\ pc # "crashed"
    /\ \A url \in Urls :
          LET pg == Pages(url)
              processed == Len(HitsOf(pg, Len(pg))) - Pending(url)
          IN  /\ Len(RunRows(url)) = processed
              /\ Cardinality(DetailIdx(url)) = processed
              /\ (pc = ReturnPc(url) /\ Len(pg) >= 1 /\ IsOKPage(pg[Len(pg)]))
                    => ~Truthy(TokenOf(pg[Len(pg)]))

C10_Witness ==
    /\ pc = "text_for"
    /\ Len(Pages(BASE_URL)) = 2
    /\ idx = 2
    /\ DetailFailed(dados_detalhes)
    /\ Len(resultados) = 2

====
